---------------------------- MODULE Spec2Model ----------------------------
(***************************************************************************)
(* Model of dm_writer.write_dm (src/dm_writer.py), the template-based DM3  *)
(* writer, and of the threads that call it; and of the converter           *)
(* application (src/emd_to_dm_converter.py): the user at the window, the   *)
(* Tk event loop and the worker thread of a conversion run.                *)
(*                                                                         *)
(* Byte strings.  The reference template is a binary asset of 192708      *)
(* bytes whose content is not part of the source.  Its bytes are kept      *)
(* symbolic: template byte k is the value -(k+1), a literal byte is a      *)
(* number in 0..255.  A byte string (a bytes / bytearray object, or the    *)
(* content of a file) is a sequence of segments, each either a run         *)
(* [lo, hi) of template bytes or a non-empty sequence of literal bytes.    *)
(* The segment sequence is kept canonical (no empty segment, no two        *)
(* adjacent literal segments, no two adjacent runs that continue each      *)
(* other), so two byte strings are equal exactly when their segment        *)
(* sequences are equal.                                                    *)
(*                                                                         *)
(* Floating point.  A Python float handed in by the caller is a record     *)
(* [neg, m, e] with value (-1)^neg * m * 2^e (m a natural number, m = 0    *)
(* for zero).  A computed double and a 32-bit float are records            *)
(* [neg, bits, e] with value (-1)^neg * 1.b2b3... * 2^e, bits[1] = 1       *)
(* (bits = <<>> for zero; inf = TRUE for an infinity).                     *)
(*                                                                         *)
(* The application.  The event-loop thread runs the handlers of the        *)
(* buttons and the callbacks given to root.after(0, ...), each to its end  *)
(* and in the order they were scheduled; the worker thread takes one step  *)
(* per stretch of _convert_worker between two places where it reads the    *)
(* tree or ends an iteration.  A call of write_dm by the worker is one     *)
(* step: the event-loop thread touches no output file.                     *)
(***************************************************************************)
EXTENDS Integers, Sequences, FiniteSets, TLC

\* ------------------------------------------------------------ bounds
MaxDim == 2
MaxNdim == 3

\* ------------------------------------------------ offsets (dm_writer.py)
RefLen == 192708
HEADER_SIZE_FIELD == 4
HEADER_SIZE_DELTA == 20
_CAL_DIM1_ORIGIN == 152441
_CAL_DIM1_SCALE == 152465
_CAL_DIM2_ORIGIN == 152535
_CAL_DIM2_SCALE == 152559
_DATA_ELEM_TYPE == 152656
_DATA_ELEM_COUNT == 152660
_DATA_BODY == 152664
_ORIG_DATA_BYTES == 7569 * 4
_SUFFIX_START == _DATA_BODY + _ORIG_DATA_BYTES
_REL_DATATYPE == 182963 - _SUFFIX_START
_REL_DIM_NX == 183001 - _SUFFIX_START
_REL_DIM_NY == 183020 - _SUFFIX_START
_REL_PIXELDEPTH == 183049 - _SUFFIX_START

\* ------------------------------------------------------- byte strings
Run(lo, hi) == [lo |-> lo, hi |-> hi, b |-> <<>>]
Lit(bytes) == [lo |-> 0, hi |-> 0, b |-> bytes]
IsRun(s) == s.b = <<>>
SegLen(s) == IF IsRun(s) THEN s.hi - s.lo ELSE Len(s.b)

FromRun(lo, hi) == IF hi > lo THEN <<Run(lo, hi)>> ELSE <<>>
FromBytes(bytes) == IF bytes = <<>> THEN <<>> ELSE <<Lit(bytes)>>

RECURSIVE BLen(_)
BLen(buf) == IF buf = <<>> THEN 0 ELSE SegLen(Head(buf)) + BLen(Tail(buf))

\* the first n bytes of one segment, and the segment without them
SegTake(s, n) == IF IsRun(s) THEN Run(s.lo, s.lo + n) ELSE Lit(SubSeq(s.b, 1, n))
SegDrop(s, n) == IF IsRun(s) THEN Run(s.lo + n, s.hi) ELSE Lit(SubSeq(s.b, n + 1, Len(s.b)))

\* buf[:n]
RECURSIVE Take(_, _)
Take(buf, n) ==
    IF n <= 0 \/ buf = <<>> THEN <<>>
    ELSE IF SegLen(Head(buf)) <= n
         THEN <<Head(buf)>> \o Take(Tail(buf), n - SegLen(Head(buf)))
         ELSE <<SegTake(Head(buf), n)>>

\* buf[n:]
RECURSIVE Drop(_, _)
Drop(buf, n) ==
    IF buf = <<>> THEN <<>>
    ELSE IF n <= 0 THEN buf
    ELSE IF SegLen(Head(buf)) <= n
         THEN Drop(Tail(buf), n - SegLen(Head(buf)))
         ELSE <<SegDrop(Head(buf), n)>> \o Tail(buf)

\* x + y
Cat(x, y) ==
    IF x = <<>> THEN y
    ELSE IF y = <<>> THEN x
    ELSE LET a == x[Len(x)]
             c == Head(y)
         IN IF ~IsRun(a) /\ ~IsRun(c)
            THEN SubSeq(x, 1, Len(x) - 1) \o <<Lit(a.b \o c.b)>> \o Tail(y)
            ELSE IF IsRun(a) /\ IsRun(c) /\ a.hi = c.lo
            THEN SubSeq(x, 1, Len(x) - 1) \o <<Run(a.lo, c.hi)>> \o Tail(y)
            ELSE x \o y

\* buf[i]: a literal byte, or -(k+1) for template byte k
RECURSIVE ByteAt(_, _)
ByteAt(buf, i) ==
    LET s == Head(buf)
    IN IF i < SegLen(s)
       THEN IF IsRun(s) THEN 0 - (s.lo + i + 1) ELSE s.b[i + 1]
       ELSE ByteAt(Tail(buf), i - SegLen(s))

TemplateByte(k) == 0 - (k + 1)

\* struct.pack_into(fmt, buf, off, v) with `bytes` the packed value
PackInto(buf, off, bytes) ==
    Cat(Cat(Take(buf, off), FromBytes(bytes)), Drop(buf, off + Len(bytes)))

\* struct.pack('>I', v) and struct.pack('<I', v), 0 <= v < 2^31
PackBE32(v) == <<(v \div 16777216) % 256, (v \div 65536) % 256, (v \div 256) % 256, v % 256>>
PackLE32(v) == <<v % 256, (v \div 256) % 256, (v \div 65536) % 256, (v \div 16777216) % 256>>

\* struct.unpack_from('>I' / '<I', buf, off); -1 when a byte is a template byte
Bytes4(buf, off) == [i \in 1..4 |-> ByteAt(buf, off + i - 1)]
AllLiteral(bs) == \A i \in 1..Len(bs) : bs[i] >= 0
UnpackBE32(buf, off) ==
    LET bs == Bytes4(buf, off)
    IN IF AllLiteral(bs) /\ bs[1] < 128
       THEN ((bs[1] * 256 + bs[2]) * 256 + bs[3]) * 256 + bs[4] ELSE -1
UnpackLE32(buf, off) ==
    LET bs == Bytes4(buf, off)
    IN IF AllLiteral(bs) /\ bs[4] < 128
       THEN ((bs[4] * 256 + bs[3]) * 256 + bs[2]) * 256 + bs[1] ELSE -1

\* -------------------------------------------------------------- floats
\* a Python float given by the caller: (-1)^neg * m * 2^e
F(neg, m, e) == [neg |-> neg, m |-> m, e |-> e]
FZero == F(FALSE, 0, 0)
FOne == F(FALSE, 1, 0)
IsZero(x) == x.m = 0
\* -x
FNeg(x) == F(~x.neg, x.m, x.e)

RECURSIVE Pow2(_)
Pow2(n) == IF n <= 0 THEN 1 ELSE 2 * Pow2(n - 1)

\* m as binary digits, most significant first (m > 0)
RECURSIVE BitsOf(_)
BitsOf(m) == IF m <= 1 THEN <<m>> ELSE BitsOf(m \div 2) \o <<m % 2>>

RECURSIVE IntOf(_)
IntOf(bits) ==
    IF bits = <<>> THEN 0 ELSE 2 * IntOf(SubSeq(bits, 1, Len(bits) - 1)) + bits[Len(bits)]

RECURSIVE StripZeros(_)
StripZeros(bits) ==
    IF bits # <<>> /\ bits[Len(bits)] = 0
    THEN StripZeros(SubSeq(bits, 1, Len(bits) - 1)) ELSE bits

\* a double or a 32-bit float: (-1)^neg * 1.b2b3... * 2^e
D(neg, bits, e) == [neg |-> neg, bits |-> bits, e |-> e, inf |-> FALSE]
DInf(neg) == [neg |-> neg, bits |-> <<>>, e |-> 0, inf |-> TRUE]
DIsZero(d) == d.bits = <<>> /\ ~d.inf

\* the double holding a caller's float (exact: m has fewer than 53 bits);
\* m = -1 stands for an infinity
ToD(x) ==
    IF x.m < 0 THEN DInf(x.neg)
    ELSE IF IsZero(x) THEN D(x.neg, <<>>, 0)
    ELSE D(x.neg, StripZeros(BitsOf(x.m)), x.e + Len(BitsOf(x.m)) - 1)

\* bits + 1 in the last place; <<>> when every bit was 1 (the carry leaves the top)
RECURSIVE IncBits(_)
IncBits(bits) ==
    IF bits = <<>> THEN <<>>
    ELSE IF bits[Len(bits)] = 0
         THEN SubSeq(bits, 1, Len(bits) - 1) \o <<1>>
         ELSE LET up == IncBits(SubSeq(bits, 1, Len(bits) - 1))
              IN IF up = <<>> THEN <<>> ELSE up \o <<0>>

AnyOne(bits, from) == \E i \in from..Len(bits) : bits[i] = 1

\* round-to-nearest-even of 1.b2b3... * 2^e to n significant bits (n >= 1);
\* sticky says that non-zero digits follow `bits`
RoundTo(bits, sticky, e, n) ==
    IF Len(bits) <= n /\ ~sticky THEN [bits |-> StripZeros(bits), e |-> e]
    ELSE LET kept == [i \in 1..n |-> IF i <= Len(bits) THEN bits[i] ELSE 0]
             guard == IF Len(bits) > n THEN bits[n + 1] ELSE 0
             rest == sticky \/ AnyOne(bits, n + 2)
             up == guard = 1 /\ (rest \/ kept[n] = 1)
             inc == IncBits(kept)
         IN IF ~up THEN [bits |-> StripZeros(kept), e |-> e]
            ELSE IF inc = <<>> THEN [bits |-> <<1>>, e |-> e + 1]
            ELSE [bits |-> StripZeros(inc), e |-> e]

\* the next n digits of r / d (0 <= r < d), and the remainder left after them
RECURSIVE QuotBits(_, _, _)
QuotBits(r, d, n) ==
    IF n = 0 THEN <<>>
    ELSE IF r = 0 THEN <<0>> \o QuotBits(0, d, n - 1)
    ELSE LET bit == IF 2 * r >= d THEN 1 ELSE 0
         IN <<bit>> \o QuotBits(2 * r - bit * d, d, n - 1)
RECURSIVE QuotRem(_, _, _)
QuotRem(r, d, n) ==
    IF n = 0 \/ r = 0 THEN r
    ELSE QuotRem(IF 2 * r >= d THEN 2 * r - d ELSE 2 * r, d, n - 1)

\* the j >= 0 with d * 2^j <= a < d * 2^(j+1)   (a >= d)
RECURSIVE ShiftUp(_, _)
ShiftUp(a, d) == IF 2 * d <= a THEN 1 + ShiftUp(a, 2 * d) ELSE 0
\* the k >= 0 with a * 2^k >= d > a * 2^(k-1)
RECURSIVE ShiftDown(_, _)
ShiftDown(a, d) == IF a >= d THEN 0 ELSE 1 + ShiftDown(2 * a, d)

DoubleBits == 53
\* a / b as Python computes it: the IEEE-754 double nearest the quotient (b # 0;
\* the exponents of the floats given here keep the quotient a normal double)
FDiv(a, b) ==
    IF IsZero(a) THEN D(a.neg # b.neg, <<>>, 0)
    ELSE LET j == IF a.m >= b.m THEN ShiftUp(a.m, b.m) ELSE 0
             k == IF a.m >= b.m THEN 0 ELSE ShiftDown(a.m, b.m)
             num == a.m * Pow2(k)
             den == b.m * Pow2(j)
             e == a.e - b.e + j - k
             digits == <<1>> \o QuotBits(num - den, den, DoubleBits)
             left == QuotRem(num - den, den, DoubleBits)
             r == RoundTo(digits, left # 0, e, DoubleBits)
         IN D(a.neg # b.neg, r.bits, r.e)

FloatBits == 24
FloatMaxExp == 127
FloatMinExp == -126
\* (float)d, the C conversion struct.pack('<f') applies: nearest 32-bit float,
\* an infinity when the rounded value is out of range
ToFloat32(d) ==
    IF d.inf \/ DIsZero(d) THEN d
    ELSE LET n == IF d.e >= FloatMinExp THEN FloatBits
                  ELSE FloatBits - (FloatMinExp - d.e)
         IN IF n >= 1
            THEN LET r == RoundTo(d.bits, FALSE, d.e, n)
                 IN IF r.e > FloatMaxExp THEN DInf(d.neg) ELSE D(d.neg, r.bits, r.e)
            ELSE IF n = 0 /\ Len(d.bits) > 1
            THEN D(d.neg, <<1>>, d.e + 1)
            ELSE D(d.neg, <<>>, 0)

\* a 32-bit float as [neg, m, e]
FromFloat32(f) ==
    IF f.inf THEN F(f.neg, -1, 0)
    ELSE IF DIsZero(f) THEN F(f.neg, 0, 0)
    ELSE F(f.neg, IntOf(f.bits), f.e - (Len(f.bits) - 1))

\* the 4 bytes of a 32-bit float, little-endian
Float32Bytes(f) ==
    LET sign == IF f.neg THEN 128 ELSE 0
        sub == f.e < FloatMinExp
        biased == IF f.inf THEN 255 ELSE IF DIsZero(f) \/ sub THEN 0 ELSE f.e + FloatMaxExp
        full == [i \in 1..FloatBits |-> IF i <= Len(f.bits) THEN f.bits[i] ELSE 0]
        frac == IF f.inf \/ DIsZero(f) THEN 0
                ELSE IF sub THEN IntOf(full) \div Pow2(FloatMinExp - f.e)
                ELSE IntOf(full) - Pow2(FloatBits - 1)
    IN <<frac % 256, (frac \div 256) % 256,
         (frac \div 65536) + (biased % 2) * 128, sign + biased \div 2>>

\* struct.pack('<f', d): the bytes, or <<>> when Python raises OverflowError
\* ("float too large to pack with f format": a finite double that rounds to inf)
PackF32(d) ==
    LET f == ToFloat32(d)
    IN IF f.inf /\ ~d.inf THEN <<>> ELSE Float32Bytes(f)

\* struct.unpack('<f', bs): the value as a caller's float with m odd (or 0);
\* m = -1 for an infinity, a NaN or a field holding template bytes
RECURSIVE OddForm(_, _, _)
OddForm(neg, m, e) ==
    IF m = 0 THEN F(neg, 0, 0)
    ELSE IF m % 2 = 0 THEN OddForm(neg, m \div 2, e + 1) ELSE F(neg, m, e)
UnpackF32(bs) ==
    IF ~AllLiteral(bs) THEN F(FALSE, -1, 0)
    ELSE LET neg == bs[4] >= 128
             biased == (bs[4] % 128) * 2 + bs[3] \div 128
             frac == ((bs[3] % 128) * 256 + bs[2]) * 256 + bs[1]
         IN IF biased = 255 THEN F(neg, -1, 0)
            ELSE IF biased = 0 THEN OddForm(neg, frac, FloatMinExp - (FloatBits - 1))
            ELSE OddForm(neg, frac + Pow2(FloatBits - 1), biased - FloatMaxExp - (FloatBits - 1))

\* --------------------------------------------------- type-code tables
_ARRAY_TYPES ==
    [int8 |-> 10, uint8 |-> 10, int16 |-> 2, uint16 |-> 4,
     int32 |-> 3, uint32 |-> 5, float32 |-> 6, float64 |-> 7]
_IMAGE_DTYPES ==
    [int8 |-> 9, uint8 |-> 6, int16 |-> 1, uint16 |-> 10,
     int32 |-> 7, uint32 |-> 11, float32 |-> 2, float64 |-> 12]

\* numpy element kinds: those of the tables and some without an entry
TableKinds == DOMAIN _ARRAY_TYPES
OtherKinds == {"int64", "uint64", "float16", "bool"}
Kinds == TableKinds \cup OtherKinds
FloatKinds == {"float16", "float32", "float64"}
SignedKinds == {"int8", "int16", "int32", "int64"}

\* dtype.itemsize
ItemSize(kind) ==
    CASE kind \in {"int8", "uint8", "bool"} -> 1
      [] kind \in {"int16", "uint16", "float16"} -> 2
      [] kind \in {"int32", "uint32", "float32"} -> 4
      [] OTHER -> 8

\* ------------------------------------------------------------- arrays
\* An ndarray: dtype, shape and the elements in C order.  An element of a
\* float kind is a float [neg, m, e]; of an integer kind an integer; of bool 0 or 1.
Prod(shape) == IF shape = <<>> THEN 1
               ELSE IF Len(shape) = 1 THEN shape[1]
               ELSE IF Len(shape) = 2 THEN shape[1] * shape[2]
               ELSE shape[1] * shape[2] * shape[3]
NDim(data) == Len(data.shape)

Abs(v) == IF v < 0 THEN 0 - v ELSE v

\* one element converted by ndarray.astype(to): a float is rounded to the
\* nearest 32-bit float, an integer or bool becomes the float of that value
\* (64-bit integers are narrowed modulo 2^32, the identity on the values
\* -2^31 .. 2^31 - 1 an element can hold here)
ConvertElem(v, from, to) ==
    IF to = "float32"
    THEN IF from \in FloatKinds THEN FromFloat32(ToFloat32(ToD(v)))
         ELSE FromFloat32(ToFloat32(ToD(F(v < 0, Abs(v), 0))))
    ELSE v

\* data.astype(kind): the element values are converted, the shape kept
AsType(data, kind) ==
    [dtype |-> kind, shape |-> data.shape,
     vals |-> [k \in 1..Len(data.vals) |-> ConvertElem(data.vals[k], data.dtype, kind)]]

\* the 8 bytes of a double (zero or normal), little-endian
DoubleExpBits == 11
DoubleBias == 1023
RECURSIVE BitsN(_, _)
BitsN(v, n) == IF n = 0 THEN <<>> ELSE BitsN(v \div 2, n - 1) \o <<v % 2>>
Float64Bytes(d) ==
    LET word == <<IF d.neg THEN 1 ELSE 0>>
                \o BitsN(IF DIsZero(d) THEN 0 ELSE d.e + DoubleBias, DoubleExpBits)
                \o [i \in 1..(DoubleBits - 1) |->
                        IF i + 1 <= Len(d.bits) THEN d.bits[i + 1] ELSE 0]
    IN [i \in 1..8 |-> IntOf(SubSeq(word, 8 * (8 - i) + 1, 8 * (8 - i) + 8))]

\* the bytes of one element of an array of a kind that has a table entry,
\* little-endian
ElemBytes(v, kind) ==
    IF kind = "float32" THEN Float32Bytes(ToFloat32(ToD(v)))
    ELSE IF kind = "float64" THEN Float64Bytes(ToD(v))
    ELSE [i \in 1..ItemSize(kind) |-> (v \div Pow2(8 * (i - 1))) % 256]

\* data.tobytes()
RECURSIVE FlatBytes(_, _)
FlatBytes(vals, kind) ==
    IF vals = <<>> THEN <<>> ELSE ElemBytes(Head(vals), kind) \o FlatBytes(Tail(vals), kind)
ToBytes(data) == FlatBytes(data.vals, data.dtype)

\* ------------------------------------------------------------ write_dm
None == <<>>
VersionError == "ValueError: Only DM3 (version=3) is supported"
ShapeError == "ValueError: Expected 2-D array"
OverflowError == "OverflowError: float too large to pack with f format"
IOError == "OSError"
NoError == "none"

\* CheckArgs with the two checks in the other order
CheckArgsShapeFirst(version, data) ==
    IF NDim(data) # 2 THEN ShapeError
    ELSE IF version # 3 THEN VersionError
    ELSE NoError

\* lines 89-92: the error the argument checks raise, or NoError
CheckArgs(version, data) ==
    IF version # 3 THEN VersionError
    ELSE IF NDim(data) # 2 THEN ShapeError
    ELSE NoError

\* Coerce without the 64-bit float rule (float64 has a table entry of its own)
CoerceKeepFloat64(data) ==
    IF data.dtype = "int64" THEN AsType(data, "int32")
    ELSE IF data.dtype = "uint64" THEN AsType(data, "uint32")
    ELSE IF data.dtype \notin DOMAIN _ARRAY_TYPES THEN AsType(data, "float32")
    ELSE data

\* lines 94-103: coerce to a supported type
Coerce(data) ==
    IF data.dtype = "float64" THEN AsType(data, "float32")
    ELSE IF data.dtype = "int64" THEN AsType(data, "int32")
    ELSE IF data.dtype = "uint64" THEN AsType(data, "uint32")
    ELSE IF data.dtype \notin DOMAIN _ARRAY_TYPES THEN AsType(data, "float32")
    ELSE data

\* lines 110-113
DefaultScales(pixel_scales) == IF pixel_scales = None THEN <<FOne, FOne>> ELSE pixel_scales
DefaultOffsets(pixel_offsets) == IF pixel_offsets = None THEN <<FZero, FZero>> ELSE pixel_offsets

\* lines 131-134: origin = -offset / scale, the scale replaced by 1.0 when it is 0
\* (a tuple index i of the source is i + 1 here)
Origin(offset, scale) == FDiv(FNeg(offset), IF ~IsZero(scale) THEN scale ELSE FOne)

\* A buffer under patching: the bytes, and the error raised so far
Ok(buf) == [buf |-> buf, err |-> NoError]
\* struct.pack_into('<f', buf, off, d)
PackFloatInto(st, off, d) ==
    IF st.err # NoError THEN st
    ELSE IF PackF32(d) = <<>> THEN [buf |-> st.buf, err |-> OverflowError]
    ELSE Ok(PackInto(st.buf, off, PackF32(d)))

\* PatchCalibration with the two axes taken from the wrong tuple index
PatchCalibrationSwapped(prefix, pixel_scales, pixel_offsets) ==
    LET s1 == PackFloatInto(Ok(prefix), _CAL_DIM1_SCALE, ToD(pixel_scales[1]))
        s2 == PackFloatInto(s1, _CAL_DIM2_SCALE, ToD(pixel_scales[2]))
        x_origin == Origin(pixel_offsets[1], pixel_scales[1])
        y_origin == Origin(pixel_offsets[2], pixel_scales[2])
        s3 == PackFloatInto(s2, _CAL_DIM1_ORIGIN, x_origin)
    IN PackFloatInto(s3, _CAL_DIM2_ORIGIN, y_origin)

\* lines 128-136: the four calibration fields
PatchCalibration(prefix, pixel_scales, pixel_offsets) ==
    LET s1 == PackFloatInto(Ok(prefix), _CAL_DIM1_SCALE, ToD(pixel_scales[2]))
        s2 == PackFloatInto(s1, _CAL_DIM2_SCALE, ToD(pixel_scales[1]))
        x_origin == Origin(pixel_offsets[2], pixel_scales[2])
        y_origin == Origin(pixel_offsets[1], pixel_scales[1])
        s3 == PackFloatInto(s2, _CAL_DIM1_ORIGIN, x_origin)
    IN PackFloatInto(s3, _CAL_DIM2_ORIGIN, y_origin)

\* PatchDataInfo with the element count in the type field and the type in the count
PatchDataInfoSwapped(prefix, elem_type, count) ==
    PackInto(PackInto(prefix, _DATA_ELEM_TYPE, PackBE32(count)),
             _DATA_ELEM_COUNT, PackBE32(elem_type))

\* lines 139-140: the data-array info
PatchDataInfo(prefix, elem_type, count) ==
    PackInto(PackInto(prefix, _DATA_ELEM_TYPE, PackBE32(elem_type)),
             _DATA_ELEM_COUNT, PackBE32(count))

\* PatchSuffix with the column count one byte late
PatchSuffixShifted(suffix, image_dtype, nx, ny, pixel_depth) ==
    PackInto(PackInto(PackInto(PackInto(suffix,
        _REL_DATATYPE, PackLE32(image_dtype)),
        _REL_DIM_NX + 1, PackLE32(nx)),
        _REL_DIM_NY, PackLE32(ny)),
        _REL_PIXELDEPTH, PackLE32(pixel_depth))

\* lines 146-149: the four fields after the pixel data
PatchSuffix(suffix, image_dtype, nx, ny, pixel_depth) ==
    PackInto(PackInto(PackInto(PackInto(suffix,
        _REL_DATATYPE, PackLE32(image_dtype)),
        _REL_DIM_NX, PackLE32(nx)),
        _REL_DIM_NY, PackLE32(ny)),
        _REL_PIXELDEPTH, PackLE32(pixel_depth))

\* Assemble with the size field holding the whole length
AssembleWholeLength(prefix, data_bytes, suffix) ==
    LET result == Cat(Cat(prefix, FromBytes(data_bytes)), suffix)
    IN PackInto(result, HEADER_SIZE_FIELD, PackBE32(BLen(result)))

\* lines 152-153: assemble and patch the header's file-size field
Assemble(prefix, data_bytes, suffix) ==
    LET result == Cat(Cat(prefix, FromBytes(data_bytes)), suffix)
    IN PackInto(result, HEADER_SIZE_FIELD, PackBE32(BLen(result) - HEADER_SIZE_DELTA))

\* lines 105-108 and 119-153: from the template's bytes and the coerced array
\* to the result, or to the error raised on the way
BuildResult(ref, data, pixel_scales, pixel_offsets) ==
    LET ny == data.shape[1]
        nx == data.shape[2]
        elem_type == _ARRAY_TYPES[data.dtype]
        image_dtype == _IMAGE_DTYPES[data.dtype]
        pixel_depth == ItemSize(data.dtype)
        prefix == Take(ref, _DATA_BODY)
        suffix == Drop(ref, _SUFFIX_START)
        cal == PatchCalibration(prefix, pixel_scales, pixel_offsets)
    IN IF cal.err # NoError THEN cal
       ELSE Ok(Assemble(PatchDataInfo(cal.buf, elem_type, nx * ny),
                        ToBytes(data),
                        PatchSuffix(suffix, image_dtype, nx, ny, pixel_depth)))

\* -------------------------------------------------------------- state
VARIABLES
    fs,      \* the file system: path -> [exists, bytes]
    pc,      \* thread -> where its call of write_dm stands
    args,    \* thread -> the arguments of its call
    local,   \* thread -> the call's local variables
    err,     \* thread -> the exception the call raised
    prior,   \* thread -> the file system when the call began
    opened,  \* thread -> the paths the call has opened so far
    owner,   \* output path -> the thread that last called write_dm on it (0: none)
    \* the converter application (emd_to_dm_converter.py)
    file_tree,      \* the queued items in order: [iid, path, status]
    last_iid,       \* the number of items the tree has ever been given
    overwrite,      \* the "Overwrite existing files" box (left as it starts: not ticked)
    is_converting,  \* self.is_converting
    convert_btn,    \* the state of the Convert button
    progress,       \* the progress bar: [maximum, value]
    status_label,   \* the text of the status label
    after_queue,    \* the callbacks given to root.after(0, ...) that have not run yet
    workers,        \* the worker threads started so far, in order
    shown,          \* the number of "Done" message boxes shown
    advanced        \* the items whose _advance_progress has run since the bar was reset
dmVars == <<fs, pc, args, local, err, prior, opened, owner>>
callVars == <<pc, args, local, err, prior, opened, owner>>
appVars == <<file_tree, last_iid, overwrite, is_converting, convert_btn, progress,
             status_label, after_queue, workers, shown, advanced>>
vars == <<dmVars, appVars>>

_REF_PATH == "reference_template.dm3"
OutPaths == {"a.dm3", "b.dm3"}
Paths == OutPaths \cup {_REF_PATH}

File(bytes) == [exists |-> TRUE, bytes |-> bytes]
NoFile == [exists |-> FALSE, bytes |-> <<>>]
Template == FromRun(0, RefLen)

NoArgs == [filepath |-> "", data |-> [dtype |-> "", shape |-> <<>>, vals |-> <<>>],
           pixel_scales |-> None, pixel_units |-> None, pixel_offsets |-> None,
           title |-> "", version |-> 0]
NoLocal == [data |-> NoArgs.data, pixel_scales |-> None, pixel_offsets |-> None,
            ref |-> <<>>, result |-> <<>>]

\* ------------------------------------------------- the application's state
\* the text of the status label: its wording and the numbers it shows
Text(kind, a, b) == [kind |-> kind, a |-> a, b |-> b]
Ready == Text("Ready. Add EMD files to begin.", 0, 0)
Queued(n) == Text("file(s) queued.", n, 0)
Converting(i, n) == Text("Converting", i, n)
Summary(success, fail) == Text("Conversion complete", success, fail)

\* the progress bar as ttk makes it
NewProgressbar == [maximum |-> 100, value |-> 0]

\* EMDConverterApp.__init__, the dependencies being installed
AppInit ==
    /\ file_tree = <<>>
    /\ last_iid = 0
    /\ overwrite = FALSE
    /\ is_converting = FALSE
    /\ convert_btn = "normal"
    /\ progress = NewProgressbar
    /\ status_label = Ready
    /\ after_queue = <<>>
    /\ workers = <<>>
    /\ shown = 0
    /\ advanced = <<>>

\* ------------------------------------------------------------- inputs
\* element k (from 0) of the sample array of a kind: start + k, halved for the
\* float kinds, reduced to 0/1 for bool
Elem(kind, v) ==
    IF kind \in FloatKinds THEN F(v < 0, Abs(v), -1)
    ELSE IF kind = "bool" THEN v % 2
    ELSE v
Array(kind, shape, start) ==
    [dtype |-> kind, shape |-> shape,
     vals |-> [k \in 1..Prod(shape) |-> Elem(kind, start + k - 1)]]

Shapes2D == {<<ny, nx>> : ny \in 1..MaxDim, nx \in 1..MaxDim}
ShapeOfNdim(n) == [i \in 1..n |-> 1]

\* the calibration of one axis: <<scale, offset>>
AxisCases ==
    << <<F(FALSE, 1, -1), FZero>>,
       <<F(FALSE, 1, -1), F(FALSE, 3, 0)>>,
       <<F(TRUE, 1, 1), F(FALSE, 3, -1)>>,
       <<F(FALSE, 3, 0), F(FALSE, 1, 0)>>,
       <<FZero, F(FALSE, 5, 0)>>,
       <<FZero, F(FALSE, 1, 128)>>,
       <<F(FALSE, 16777217, 0), FZero>>,
       <<F(FALSE, 1, 128), FZero>>,
       <<F(FALSE, 1, -127), FZero>> >>
\* the row axis takes case i, the column axis case i or the case after it
AxisPairs ==
    {<<i, j>> \in (1..Len(AxisCases)) \X (1..Len(AxisCases)) :
        j = i \/ j = (i % Len(AxisCases)) + 1}

MkArgs(data, scales, units, offsets, title, version) ==
    [filepath |-> "", data |-> data, pixel_scales |-> scales, pixel_units |-> units,
     pixel_offsets |-> offsets, title |-> title, version |-> version]

\* every element kind and shape, default calibration
KindInputs ==
    {MkArgs(Array(k, sh, st), None, None, None, "", 3) :
        k \in Kinds, sh \in Shapes2D, st \in {-1, 0}}
\* calibrations given, for one array
CalInputs ==
    {MkArgs(Array("int32", <<1, MaxDim>>, 0),
            <<AxisCases[c[1]][1], AxisCases[c[2]][1]>>, None,
            <<AxisCases[c[1]][2], AxisCases[c[2]][2]>>, "", 3) : c \in AxisPairs}
    \cup {MkArgs(Array("int32", <<1, MaxDim>>, 0), <<F(FALSE, 3, 0), F(FALSE, 1, -1)>>,
                 None, None, "", 3),
          MkArgs(Array("int32", <<1, MaxDim>>, 0), None, None,
                 <<F(FALSE, 3, 0), F(FALSE, 1, -1)>>, "", 3)}
\* arguments the checks refuse, and a valid call beside them
BadInputs ==
    {MkArgs(Array("float64", ShapeOfNdim(n), 0), None, None, None, "", v) :
        n \in 1..MaxNdim, v \in {3, 4}}
\* the ignored arguments
MetaInputs ==
    {MkArgs(Array("uint16", <<MaxDim, MaxDim>>, 0), <<F(FALSE, 1, -1), F(FALSE, 1, -1)>>,
            u, None, t, 3) : u \in {None, <<"1/nm", "1/nm">>}, t \in {"", "SAED"}}
WellTyped(a) == \A k \in 1..Len(a.data.vals) :
    a.data.dtype \in FloatKinds \/ a.data.vals[k] >= 0 \/ a.data.dtype \in SignedKinds
WideInputs == {a \in KindInputs \cup CalInputs \cup BadInputs \cup MetaInputs : WellTyped(a)}
NarrowInputs ==
    {a \in MetaInputs : (a.pixel_units = None) = (a.title = "")}
    \cup {MkArgs(Array("float64", <<1, 1>>, 0), None, None, None, "", 3),
          MkArgs(Array("float64", <<1, 1>>, 0), None, None, None, "", 4)}

\* what the output path may hold before a call: nothing, a short file, a long one
PriorFiles == {NoFile, File(FromBytes(<<68, 77>>)), File(Template)}

\* ------------------------------------------------------------- actions
Threads == DOMAIN pc
\* the thread is inside write_dm
Active(q) == pc[q] \notin {"idle", "returned", "raised"}

\* a thread calls write_dm(filepath, data, ...); no other call in progress has
\* the same output path (one that has ended may have had it)
Call(p, inputs) ==
    /\ pc[p] = "idle"
    /\ \E a \in inputs, path \in OutPaths :
          /\ \A q \in Threads \ {p} : Active(q) => args[q].filepath # path
          /\ owner' = [owner EXCEPT ![path] = p]
          /\ args' = [args EXCEPT ![p] = [a EXCEPT !.filepath = path]]
          /\ local' = [local EXCEPT ![p] = [NoLocal EXCEPT !.data = a.data,
                                             !.pixel_scales = a.pixel_scales,
                                             !.pixel_offsets = a.pixel_offsets]]
          /\ prior' = [prior EXCEPT ![p] = fs]
    /\ pc' = [pc EXCEPT ![p] = "check"]
    /\ UNCHANGED <<fs, err, opened, appVars>>

Raise(p, e) ==
    /\ pc' = [pc EXCEPT ![p] = "raised"]
    /\ err' = [err EXCEPT ![p] = e]

\* lines 89-92
Validate(p) ==
    /\ pc[p] = "check"
    /\ IF CheckArgs(args[p].version, local[p].data) # NoError
       THEN Raise(p, CheckArgs(args[p].version, local[p].data))
       ELSE pc' = [pc EXCEPT ![p] = "coerce"] /\ UNCHANGED err
    /\ UNCHANGED <<fs, args, local, prior, opened, owner, appVars>>

\* lines 94-113
Prepare(p) ==
    /\ pc[p] = "coerce"
    /\ local' = [local EXCEPT ![p].data = Coerce(local[p].data),
                              ![p].pixel_scales = DefaultScales(local[p].pixel_scales),
                              ![p].pixel_offsets = DefaultOffsets(local[p].pixel_offsets)]
    /\ pc' = [pc EXCEPT ![p] = "load"]
    /\ UNCHANGED <<fs, args, err, prior, opened, owner, appVars>>

\* LoadTemplate with the template kept in a buffer the calls share and patch in
\* place: a call that starts after another has assembled finds that one's bytes
LoadTemplateShared(p) ==
    /\ pc[p] = "load"
    /\ fs[_REF_PATH].exists
    /\ local' = [local EXCEPT ![p].ref =
                    IF \E q \in Threads \ {p} : local[q].result # <<>>
                    THEN local[CHOOSE q \in Threads \ {p} : local[q].result # <<>>].result
                    ELSE fs[_REF_PATH].bytes]
    /\ opened' = [opened EXCEPT ![p] = @ \cup {_REF_PATH}]
    /\ pc' = [pc EXCEPT ![p] = "patch"]
    /\ UNCHANGED <<fs, args, err, prior, owner, appVars>>

\* lines 116-117: open(_REF_PATH, 'rb') and read it
LoadTemplate(p) ==
    /\ pc[p] = "load"
    /\ fs[_REF_PATH].exists
    /\ local' = [local EXCEPT ![p].ref = fs[_REF_PATH].bytes]
    /\ opened' = [opened EXCEPT ![p] = @ \cup {_REF_PATH}]
    /\ pc' = [pc EXCEPT ![p] = "patch"]
    /\ UNCHANGED <<fs, args, err, prior, owner, appVars>>

\* lines 116-117 when the template cannot be opened or read
LoadTemplateFails(p) ==
    /\ pc[p] = "load"
    /\ Raise(p, IOError)
    /\ UNCHANGED <<fs, args, local, prior, opened, owner, appVars>>

\* lines 105-108, 119-153
Patch(p) ==
    /\ pc[p] = "patch"
    /\ LET r == BuildResult(local[p].ref, local[p].data,
                            local[p].pixel_scales, local[p].pixel_offsets)
       IN IF r.err # NoError
          THEN Raise(p, r.err) /\ UNCHANGED local
          ELSE /\ local' = [local EXCEPT ![p].result = r.buf]
               /\ pc' = [pc EXCEPT ![p] = "open"]
               /\ UNCHANGED err
    /\ UNCHANGED <<fs, args, prior, opened, owner, appVars>>

\* OpenOut that keeps the content of an existing file (mode 'r+b' for 'wb')
OpenOutNoTruncate(p) ==
    /\ pc[p] = "open"
    /\ fs' = [fs EXCEPT ![args[p].filepath] = File(fs[args[p].filepath].bytes)]
    /\ opened' = [opened EXCEPT ![p] = @ \cup {args[p].filepath}]
    /\ pc' = [pc EXCEPT ![p] = "write"]
    /\ UNCHANGED <<args, local, err, prior, owner, appVars>>

\* line 155: open(filepath, 'wb') creates the file or truncates it
OpenOut(p) ==
    /\ pc[p] = "open"
    /\ fs' = [fs EXCEPT ![args[p].filepath] = File(<<>>)]
    /\ opened' = [opened EXCEPT ![p] = @ \cup {args[p].filepath}]
    /\ pc' = [pc EXCEPT ![p] = "write"]
    /\ UNCHANGED <<args, local, err, prior, owner, appVars>>

\* line 155 when the path cannot be opened for writing
OpenOutFails(p) ==
    /\ pc[p] = "open"
    /\ Raise(p, IOError)
    /\ UNCHANGED <<fs, args, local, prior, opened, owner, appVars>>

\* f.write(bytes) on a file opened at position 0: the bytes replace the
\* first bytes of the file, what lies beyond them stays
WriteAtStart(old, bytes) == Cat(bytes, Drop(old, BLen(bytes)))

\* line 156: f.write(result), and the file is closed
WriteOut(p) ==
    /\ pc[p] = "write"
    /\ fs' = [fs EXCEPT ![args[p].filepath] =
                 File(WriteAtStart(fs[args[p].filepath].bytes, local[p].result))]
    /\ pc' = [pc EXCEPT ![p] = "returned"]
    /\ UNCHANGED <<args, local, err, prior, opened, owner, appVars>>

\* line 156 when the write fails part-way (disk full): the bytes written so
\* far stay in the file
WriteCuts(n) == {0, n \div 2, n - 1}
WriteOutFails(p) ==
    /\ pc[p] = "write"
    /\ \E n \in WriteCuts(BLen(local[p].result)) :
          fs' = [fs EXCEPT ![args[p].filepath] =
                    File(WriteAtStart(fs[args[p].filepath].bytes, Take(local[p].result, n)))]
    /\ Raise(p, IOError)
    /\ UNCHANGED <<args, local, prior, opened, owner, appVars>>

Step(p) ==
    \/ Validate(p)
    \/ Prepare(p)
    \/ LoadTemplate(p)
    \/ LoadTemplateFails(p)
    \/ Patch(p)
    \/ OpenOut(p)
    \/ OpenOutFails(p)
    \/ WriteOut(p)
    \/ WriteOutFails(p)

InitThreads(T, files) ==
    /\ fs \in {f \in [Paths -> files \cup {File(Template)}] :
                  f[_REF_PATH] = File(Template)}
    /\ pc = [p \in T |-> "idle"]
    /\ args = [p \in T |-> NoArgs]
    /\ local = [p \in T |-> NoLocal]
    /\ err = [p \in T |-> NoError]
    /\ prior = [p \in T |-> [f \in Paths |-> NoFile]]
    /\ opened = [p \in T |-> {}]
    /\ owner = [path \in OutPaths |-> 0]
    /\ AppInit

\* one thread, one call, any arguments
Init == InitThreads({1}, PriorFiles)
Next == \E p \in {1} : Call(p, WideInputs) \/ Step(p)
Spec == Init /\ [][Next]_vars

\* two threads, one call each, on distinct output paths
InitConc == InitThreads({1, 2}, {NoFile, File(Template)})
NextConc == \E p \in {1, 2} : Call(p, NarrowInputs) \/ Step(p)
SpecConc == InitConc /\ [][NextConc]_vars

\* ------------------------------------------------- the converter application
\* the items the tree is given in all, and the conversion runs started
MaxItems == 2
MaxRuns == 2

\* the .emd files the user can pick, and where the converted file of each goes
\* (lines 283-284, 333-335: the input's base name with ".dm3")
InPaths == {"x.emd", "y.emd"}
OutPathOf(path) == IF path = "x.emd" THEN "a.dm3" ELSE "b.dm3"

\* file_tree.get_children(): the ids of the queued items, in order
Children(tree) == [k \in 1..Len(tree) |-> tree[k].iid]
HasItem(tree, item) == \E k \in 1..Len(tree) : tree[k].iid = item
\* file_tree.item(item)["values"], for an item of the tree
ItemOf(tree, item) == tree[CHOOSE k \in 1..Len(tree) : tree[k].iid = item]
\* file_tree.delete(*sel)
Delete(tree, sel) == SelectSeq(tree, LAMBDA r : r.iid \notin sel)

\* lines 170-178: append the path as a "Pending" item unless it is queued already
_add_file_to_tree(t, path) ==
    IF \E k \in 1..Len(t.tree) : t.tree[k].path = path
    THEN t
    ELSE [tree |-> Append(t.tree, [iid |-> t.last + 1, path |-> path, status |-> "Pending"]),
          last |-> t.last + 1]
RECURSIVE AddAll(_, _)
AddAll(t, paths) ==
    IF paths = <<>> THEN t ELSE AddAll(_add_file_to_tree(t, Head(paths)), Tail(paths))

\* lines 222-225; for an item no longer in the tree file_tree.item raises
\* TclError and nothing changes
_set_item_status(tree, item, status) ==
    [k \in 1..Len(tree) |->
        IF tree[k].iid = item THEN [tree[k] EXCEPT !.status = status] ELSE tree[k]]

\* a callback given to root.after(0, ...): the function, and its arguments;
\* item names the queue item the worker was at when it scheduled the callback
NoText == Text("", 0, 0)
Callback(fn, item, status, text) ==
    [fn |-> fn, item |-> item, status |-> status, text |-> text]
SetStatus(item, status) == Callback("_set_item_status", item, status, NoText)
SetLabel(item, text) == Callback("status_label.config", item, "", text)
Advance(item) == Callback("_advance_progress", item, "", NoText)
AttachError(item) == Callback("_attach_error", item, "", NoText)
EnableButton == Callback("convert_btn.configure", 0, "", NoText)
ShowInfo(text) == Callback("messagebox.showinfo", 0, "", text)

\* ---- the user, on the event-loop thread
\* lines 180-187; the file dialog yields the paths picked (none when cancelled)
PathPicks == {<<>>} \cup {<<a>> : a \in InPaths}
             \cup {c \in InPaths \X InPaths : c[1] # c[2]}
AddFiles ==
    /\ \E paths \in PathPicks :
          /\ last_iid + Len(paths) <= MaxItems
          /\ LET t == AddAll([tree |-> file_tree, last |-> last_iid], paths)
             IN /\ file_tree' = t.tree
                /\ last_iid' = t.last
                /\ status_label' = Queued(Len(t.tree))
    /\ UNCHANGED <<dmVars, overwrite, is_converting, convert_btn, progress,
                   after_queue, workers, shown, advanced>>

\* lines 203-206
RemoveSelected ==
    /\ \E sel \in SUBSET {file_tree[k].iid : k \in 1..Len(file_tree)} :
          /\ file_tree' = Delete(file_tree, sel)
          /\ status_label' = Queued(Len(Delete(file_tree, sel)))
    /\ UNCHANGED <<dmVars, last_iid, overwrite, is_converting, convert_btn, progress,
                   after_queue, workers, shown, advanced>>

\* lines 208-210
ClearFiles ==
    /\ file_tree' = <<>>
    /\ status_label' = Queued(0)
    /\ UNCHANGED <<dmVars, last_iid, overwrite, is_converting, convert_btn, progress,
                   after_queue, workers, shown, advanced>>

\* a thread running _convert_worker(items, out_dir), before its first statement
NewWorker(items) ==
    [items |-> items, pc |-> "start", overwrite |-> FALSE, idx |-> 0, filepath |-> "",
     success |-> 0, fail |-> 0]
\* a thread that has ended, by returning ("done") or by an exception: its
\* local variables are gone
EndedWorker(how) == [NewWorker(<<>>) EXCEPT !.pc = how]

\* lines 227-255, the Convert button being enabled (a disabled button does not
\* call its command); with no item queued the handler shows a message and
\* returns, changing nothing
_start_conversion ==
    /\ convert_btn = "normal"
    /\ Len(workers) < MaxRuns
    /\ file_tree # <<>>
    /\ is_converting' = TRUE
    /\ convert_btn' = "disabled"
    /\ progress' = [maximum |-> Len(file_tree), value |-> 0]
    /\ advanced' = <<>>
    /\ workers' = Append(workers, NewWorker(Children(file_tree)))
    /\ UNCHANGED <<dmVars, file_tree, last_iid, overwrite, status_label, after_queue, shown>>

\* ---- the event loop runs the oldest callback scheduled with after(0, ...)
Due(fn) == after_queue # <<>> /\ Head(after_queue).fn = fn

RunSetLabel ==
    /\ Due("status_label.config")
    /\ status_label' = Head(after_queue).text
    /\ after_queue' = Tail(after_queue)
    /\ UNCHANGED <<dmVars, file_tree, last_iid, overwrite, is_converting, convert_btn,
                   progress, workers, shown, advanced>>

RunSetItemStatus ==
    /\ Due("_set_item_status")
    /\ file_tree' = _set_item_status(file_tree, Head(after_queue).item, Head(after_queue).status)
    /\ after_queue' = Tail(after_queue)
    /\ UNCHANGED <<dmVars, last_iid, overwrite, is_converting, convert_btn, progress,
                   status_label, workers, shown, advanced>>

\* lines 382-383
_advance_progress ==
    /\ Due("_advance_progress")
    /\ progress' = [progress EXCEPT !.value = progress.value + 1]
    /\ advanced' = Append(advanced, Head(after_queue).item)
    /\ after_queue' = Tail(after_queue)
    /\ UNCHANGED <<dmVars, file_tree, last_iid, overwrite, is_converting, convert_btn,
                   status_label, workers, shown>>

\* lines 385-389: binds the double click of the item's tag, nothing else
_attach_error ==
    /\ Due("_attach_error")
    /\ after_queue' = Tail(after_queue)
    /\ UNCHANGED <<dmVars, file_tree, last_iid, overwrite, is_converting, convert_btn,
                   progress, status_label, workers, shown, advanced>>

\* line 360
RunEnableButton ==
    /\ Due("convert_btn.configure")
    /\ convert_btn' = "normal"
    /\ after_queue' = Tail(after_queue)
    /\ UNCHANGED <<dmVars, file_tree, last_iid, overwrite, is_converting, progress,
                   status_label, workers, shown, advanced>>

\* line 361
RunShowInfo ==
    /\ Due("messagebox.showinfo")
    /\ shown' = shown + 1
    /\ after_queue' = Tail(after_queue)
    /\ UNCHANGED <<dmVars, file_tree, last_iid, overwrite, is_converting, convert_btn,
                   progress, status_label, workers, advanced>>

EventLoop ==
    \/ RunSetLabel
    \/ RunSetItemStatus
    \/ _advance_progress
    \/ _attach_error
    \/ RunEnableButton
    \/ RunShowInfo

\* ---- the worker thread
At(w, where) == w \in DOMAIN workers /\ workers[w].pc = where
\* the item of the worker's current iteration
Item(w) == workers[w].items[workers[w].idx + 1]

\* lines 258-262
WorkerStart(w) ==
    /\ At(w, "start")
    /\ workers' = [workers EXCEPT ![w].overwrite = overwrite, ![w].pc = "loop"]
    /\ UNCHANGED <<dmVars, file_tree, last_iid, overwrite, is_converting, convert_btn,
                   progress, status_label, after_queue, shown, advanced>>

\* lines 264-268: the item's path is read from the tree, outside the try
\* statement; for an item deleted since the run began file_tree.item raises
\* TclError, which ends the thread
WorkerBegin(w) ==
    /\ At(w, "loop")
    /\ IF HasItem(file_tree, Item(w))
       THEN /\ workers' = [workers EXCEPT ![w].filepath = ItemOf(file_tree, Item(w)).path,
                                          ![w].pc = "try"]
            /\ after_queue' = after_queue \o
                  <<SetLabel(Item(w), Converting(workers[w].idx + 1, Len(workers[w].items))),
                    SetStatus(Item(w), "Converting")>>
       ELSE /\ workers' = [workers EXCEPT ![w] = EndedWorker("TclError")]
            /\ UNCHANGED after_queue
    /\ UNCHANGED <<dmVars, file_tree, last_iid, overwrite, is_converting, convert_btn,
                   progress, status_label, shown, advanced>>

\* the worker's counts after one more item, and the next item or the end of
\* the loop
Counted(w, ok) ==
    [workers EXCEPT ![w].idx = @ + 1,
                    ![w].success = IF ok THEN @ + 1 ELSE @,
                    ![w].fail = IF ok THEN @ ELSE @ + 1,
                    ![w].pc = IF workers[w].idx + 1 = Len(workers[w].items)
                              THEN "report" ELSE "loop"]

\* EndIteration with the worker thread calling self._advance_progress() itself
\* where it has root.after(0, self._advance_progress)
EndIterationDirect(w, callbacks, ok) ==
    /\ after_queue' = after_queue \o callbacks
    /\ progress' = [progress EXCEPT !.value = progress.value + 1]
    /\ advanced' = Append(advanced, Item(w))
    /\ workers' = Counted(w, ok)

\* the end of one iteration: the callbacks it scheduled, the count it raised,
\* line 356 (or 277), and the next item or the end of the loop
EndIteration(w, callbacks, ok) ==
    /\ after_queue' = after_queue \o callbacks \o <<Advance(Item(w))>>
    /\ workers' = Counted(w, ok)
    /\ UNCHANGED <<progress, advanced>>

\* line 272 raising (the file is missing, or is no EMD file), lines 349-354
WorkerReadFails(w) ==
    /\ At(w, "try")
    /\ EndIteration(w, <<SetStatus(Item(w), "Error"), AttachError(Item(w))>>, FALSE)
    /\ UNCHANGED <<dmVars, file_tree, last_iid, overwrite, is_converting, convert_btn,
                   status_label, shown>>

\* lines 272-278: the file holds no image
WorkerNoImages(w) ==
    /\ At(w, "try")
    /\ EndIteration(w, <<SetStatus(Item(w), "No images found")>>, FALSE)
    /\ UNCHANGED <<dmVars, file_tree, last_iid, overwrite, is_converting, convert_btn,
                   status_label, shown>>

\* lines 335-338, 346-347: the output exists and is not to be overwritten; the
\* continue statement goes on with the next image, there is none, and the item
\* is counted as done
WorkerSkips(w) ==
    /\ At(w, "try")
    /\ fs[OutPathOf(workers[w].filepath)].exists /\ ~workers[w].overwrite
    /\ EndIteration(w, <<SetStatus(Item(w), "Skipped (exists)"),
                         SetStatus(Item(w), "Done")>>, TRUE)
    /\ UNCHANGED <<dmVars, file_tree, last_iid, overwrite, is_converting, convert_btn,
                   status_label, shown>>

\* what emd_reader finds in a file with one image: a 2-D image, or data that
\* write_dm refuses
EmdImages == {Array("uint16", <<1, MaxDim>>, 0), Array("float64", <<MaxDim>>, 0)}
\* lines 298, 339-344 (_extract_calibration of an image without axes)
WorkerArgs(filepath, data) ==
    [MkArgs(data, <<FOne, FOne>>, <<"", "">>, <<FZero, FZero>>, "x", 3)
        EXCEPT !.filepath = OutPathOf(filepath)]

\* the ways a whole call write_dm(**a) can end on file system f: the file
\* system it leaves and the exception it raised
WriteDmOutcomes(f, a) ==
    LET refused == CheckArgs(a.version, a.data)
        r == BuildResult(f[_REF_PATH].bytes, Coerce(a.data),
                         DefaultScales(a.pixel_scales), DefaultOffsets(a.pixel_offsets))
        left(bytes) == [f EXCEPT ![a.filepath] = File(WriteAtStart(<<>>, bytes))]
    IN IF refused # NoError THEN {[fs |-> f, err |-> refused]}
       ELSE {[fs |-> f, err |-> IOError]} \cup
            (IF ~f[_REF_PATH].exists THEN {}
             ELSE IF r.err # NoError THEN {[fs |-> f, err |-> r.err]}
             ELSE {[fs |-> left(r.buf), err |-> NoError]} \cup
                  {[fs |-> left(Take(r.buf, n)), err |-> IOError] :
                      n \in WriteCuts(BLen(r.buf))})

\* lines 286-347 for one image, and 349-354 when write_dm raises
WorkerWrites(w) ==
    /\ At(w, "try")
    /\ ~(fs[OutPathOf(workers[w].filepath)].exists /\ ~workers[w].overwrite)
    /\ \E data \in EmdImages :
          \E r \in WriteDmOutcomes(fs, WorkerArgs(workers[w].filepath, data)) :
             /\ fs' = r.fs
             /\ IF r.err = NoError
                THEN EndIteration(w, <<SetStatus(Item(w), "Done")>>, TRUE)
                ELSE EndIteration(w, <<SetStatus(Item(w), "Error"),
                                       AttachError(Item(w))>>, FALSE)
    /\ UNCHANGED <<callVars, file_tree, last_iid, overwrite, is_converting, convert_btn,
                   status_label, shown>>

\* lines 358-361
WorkerReport(w) ==
    /\ At(w, "report")
    /\ LET summary == Summary(workers[w].success, workers[w].fail)
       IN after_queue' = after_queue \o
             <<SetLabel(0, summary), EnableButton, ShowInfo(summary)>>
    /\ workers' = [workers EXCEPT ![w].pc = "exit"]
    /\ UNCHANGED <<dmVars, file_tree, last_iid, overwrite, is_converting, convert_btn,
                   progress, status_label, shown, advanced>>

\* line 362
WorkerExit(w) ==
    /\ At(w, "exit")
    /\ is_converting' = FALSE
    /\ workers' = [workers EXCEPT ![w] = EndedWorker("done")]
    /\ UNCHANGED <<dmVars, file_tree, last_iid, overwrite, convert_btn, progress,
                   status_label, after_queue, shown, advanced>>

Worker(w) ==
    \/ WorkerStart(w)
    \/ WorkerBegin(w)
    \/ WorkerReadFails(w)
    \/ WorkerNoImages(w)
    \/ WorkerSkips(w)
    \/ WorkerWrites(w)
    \/ WorkerReport(w)
    \/ WorkerExit(w)

User ==
    \/ AddFiles
    \/ RemoveSelected
    \/ ClearFiles
    \/ _start_conversion

\* the application: no call of write_dm but the worker's
InitApp ==
    /\ InitThreads({}, {NoFile, File(FromBytes(<<68, 77>>))})
    /\ fs["a.dm3"] = File(FromBytes(<<68, 77>>)) /\ fs["b.dm3"] = NoFile
NextApp == User \/ EventLoop \/ \E w \in 1..MaxRuns : Worker(w)
SpecApp == InitApp /\ [][NextApp]_vars
\* the worker thread keeps running and the event loop keeps serving its queue;
\* the user need do nothing
FairApp == WF_vars(EventLoop) /\ WF_vars(\E w \in 1..MaxRuns : Worker(w))
SpecAppFair == SpecApp /\ FairApp

\* ------------------------------------------------------------- claims
\* the thread's call is the last one made on its output path
Latest(p) == pc[p] # "idle" /\ owner[args[p].filepath] = p
\* the call has returned, or has ended, and no later call took its output path
Returned(p) == pc[p] = "returned" /\ Latest(p)
Ended(p) == pc[p] \in {"returned", "raised"} /\ Latest(p)
\* the file at the call's output path
OutFile(p) == fs[args[p].filepath]
Out(p) == OutFile(p).bytes
\* the call's coerced array: rows, columns, element width, payload length
Ny(p) == local[p].data.shape[1]
Nx(p) == local[p].data.shape[2]
Width(p) == ItemSize(local[p].data.dtype)
PayloadLen(p) == Nx(p) * Ny(p) * Width(p)

\* the position in buf of its k-th segment
SegStart(buf, k) == BLen(SubSeq(buf, 1, k - 1))

PrefixFields ==
    {HEADER_SIZE_FIELD, _CAL_DIM1_ORIGIN, _CAL_DIM1_SCALE, _CAL_DIM2_ORIGIN,
     _CAL_DIM2_SCALE, _DATA_ELEM_TYPE, _DATA_ELEM_COUNT}
SuffixFields == {_REL_DATATYPE, _REL_DIM_NX, _REL_DIM_NY, _REL_PIXELDEPTH}
\* byte i of an output with n payload bytes lies in a rewritten field or in the payload
Rewritten(i, n) ==
    \/ \E f \in PrefixFields : f <= i /\ i < f + 4
    \/ _DATA_BODY <= i /\ i < _DATA_BODY + n
    \/ \E r \in SuffixFields : _DATA_BODY + n + r <= i /\ i < _DATA_BODY + n + r + 4

\* Every byte of buf outside the rewritten fields and the n payload bytes is the
\* template's corresponding byte: a run of template bytes lies where the template
\* has it (before the payload) or shifted with the suffix (after it), literal
\* bytes lie in rewritten places only, and nothing of the template is missing.
FrameKept(buf, n) ==
    /\ BLen(buf) = RefLen - _ORIG_DATA_BYTES + n
    /\ \A k \in 1..Len(buf) :
          LET s == buf[k]
              pos == SegStart(buf, k)
          IN IF IsRun(s)
             THEN \/ s.lo = pos /\ s.hi <= _DATA_BODY
                  \/ /\ pos >= _DATA_BODY + n
                     /\ s.lo = pos - (_DATA_BODY + n) + _SUFFIX_START
             ELSE \A i \in pos..(pos + SegLen(s) - 1) : Rewritten(i, n)

\* C1: after every call of write_dm that returns, each byte of the output file
\* outside the four calibration fields, the two data-info fields, the length field
\* at offset 4, the payload and the four suffix-relative fields is the byte the
\* reference template has there (prefix) or at the same distance from the end of
\* the payload (suffix).
C1_FrameUnchanged == \A p \in Threads : Returned(p) => FrameKept(Out(p), PayloadLen(p))
\* a call has returned whose payload is shorter than the template's and non-trivial
C1_Witness ==
    \E p \in Threads : Returned(p) /\ PayloadLen(p) = MaxDim * 4
                       /\ args[p].pixel_scales # None /\ prior[p][args[p].filepath].exists

\* C2: after every call that returns, the big-endian 32-bit integer at offset 4 of
\* the output file is the file's size minus 20.
C2_HeaderLength ==
    \A p \in Threads :
        Returned(p) => UnpackBE32(Out(p), HEADER_SIZE_FIELD) = BLen(Out(p)) - HEADER_SIZE_DELTA
C2_Witness ==
    \E p \in Threads : Returned(p) /\ Width(p) = 2 /\ Nx(p) = MaxDim /\ Ny(p) = 1
                       /\ UnpackBE32(Out(p), HEADER_SIZE_FIELD) = RefLen - _ORIG_DATA_BYTES + 2 * MaxDim - 20

\* the call failed in its argument checks, and nothing else has happened: no file
\* was opened, the array is the caller's (not coerced), no template bytes were
\* read and the file system is as the call found it
RefusedCleanly(p) ==
    /\ pc[p] = "raised"
    /\ opened[p] = {}
    /\ local[p].data = args[p].data
    /\ local[p].ref = <<>>
    /\ fs = prior[p]

\* C3 as stated: a call with a non-2-D array fails with the shape error, a call
\* with version # 3 fails with the version error, both before anything is opened,
\* coerced or written.
C3_Original ==
    \A p \in Threads :
        Ended(p) =>
            /\ NDim(args[p].data) # 2 => err[p] = ShapeError /\ RefusedCleanly(p)
            /\ args[p].version # 3 => err[p] = VersionError /\ RefusedCleanly(p)

\* C3 amended: a call with version # 3 fails with the version error whatever the
\* array; a call with version 3 and a non-2-D array fails with the shape error;
\* both before anything is opened, coerced or written, and such a call never gets
\* past the checks.
C3_RefusedBeforeAnyEffect ==
    \A p \in Threads :
        /\ (pc[p] # "idle" /\ (args[p].version # 3 \/ NDim(args[p].data) # 2))
              => pc[p] \in {"check", "raised"}
        /\ Ended(p) =>
            /\ args[p].version # 3 => err[p] = VersionError /\ RefusedCleanly(p)
            /\ (args[p].version = 3 /\ NDim(args[p].data) # 2)
                  => err[p] = ShapeError /\ RefusedCleanly(p)
\* a call with both arguments bad was refused, with a file at its output path
C3_Witness ==
    \E p \in Threads :
        /\ pc[p] = "raised" /\ args[p].version # 3 /\ NDim(args[p].data) = 3
        /\ fs[args[p].filepath].exists

\* C4 as stated: when a call has ended, by returning or by raising, its output
\* path holds what it held before the call or the complete result, never a
\* truncated or empty file.
C4_NoPartialFile ==
    \A p \in Threads :
        Ended(p) =>
            \/ OutFile(p) = prior[p][args[p].filepath]
            \/ local[p].result # <<>> /\ OutFile(p) = File(local[p].result)

\* the scale and offset the caller gave for an axis (1 = rows, 2 = columns),
\* the documented defaults when none was given
GivenScale(p, axis) ==
    IF args[p].pixel_scales = None THEN FOne ELSE args[p].pixel_scales[axis]
GivenOffset(p, axis) ==
    IF args[p].pixel_offsets = None THEN FZero ELSE args[p].pixel_offsets[axis]
\* the divisor of the origin: the scale, 1.0 for a zero scale
Divisor(p, axis) == IF IsZero(GivenScale(p, axis)) THEN FOne ELSE GivenScale(p, axis)
\* the calibration fields read back from the output file
ScaleField(p, axis) ==
    UnpackF32(Bytes4(Out(p), IF axis = 2 THEN _CAL_DIM1_SCALE ELSE _CAL_DIM2_SCALE))
OriginField(p, axis) ==
    UnpackF32(Bytes4(Out(p), IF axis = 2 THEN _CAL_DIM1_ORIGIN ELSE _CAL_DIM2_ORIGIN))

NBits(m) == Len(BitsOf(m))
\* the exponent of the smallest positive 32-bit float
FloatMinUlp == FloatMinExp - (FloatBits - 1)

\* f is a finite number and f * den = num exactly
IsQuotient(f, num, den) ==
    LET a == OddForm(f.neg, f.m, f.e)
        n == OddForm(num.neg, num.m, num.e)
        d == OddForm(den.neg, den.m, den.e)
    IN /\ f.m >= 0
       /\ IF n.m = 0 THEN a.m = 0
          ELSE /\ n.m % d.m = 0
               /\ a.m = n.m \div d.m
               /\ a.e = n.e - d.e
               /\ a.neg = (n.neg # d.neg)

\* num / den is a 32-bit float
Representable32(num, den) ==
    LET n == OddForm(num.neg, num.m, num.e)
        d == OddForm(den.neg, den.m, den.e)
    IN \/ n.m = 0
       \/ /\ n.m % d.m = 0
          /\ NBits(n.m \div d.m) <= FloatBits
          /\ n.e - d.e >= FloatMinUlp
          /\ n.e - d.e + NBits(n.m \div d.m) - 1 <= FloatMaxExp

\* f is a finite number less than one unit in its last place away from num / den
\* (two numbers too far apart to be compared within 30 bits are not)
\* (the unit of a 32-bit float with leading-bit exponent E is 2^(E - 23), and
\* 2^-149 in the subnormal range)
WithinOneUlp(f, num, den) ==
    LET a == OddForm(f.neg, f.m, f.e)
        n == OddForm(num.neg, num.m, num.e)
        d == OddForm(den.neg, den.m, den.e)
        lead == IF a.m > 0 THEN a.e + NBits(a.m) - 1 ELSE FloatMinUlp
        u == IF lead - (FloatBits - 1) > FloatMinUlp THEN lead - (FloatBits - 1) ELSE FloatMinUlp
        c == IF n.m > 0 /\ n.e < u + d.e THEN n.e ELSE u + d.e
        sx == a.e + d.e - c
        sy == n.e - c
        su == u + d.e - c
    IN /\ f.m >= 0
       /\ (a.m > 0 /\ n.m > 0) => a.neg = (n.neg # d.neg)
       /\ a.m > 0 => NBits(a.m) + NBits(d.m) + sx <= 30
       /\ n.m > 0 => sy >= 0 /\ NBits(n.m) + sy <= 30
       /\ NBits(d.m) + su <= 30
       /\ LET x == IF a.m = 0 THEN 0 ELSE a.m * d.m * Pow2(sx)
              y == IF n.m = 0 THEN 0 ELSE n.m * Pow2(sy)
          IN Abs(x - y) < d.m * Pow2(su)

\* f holds num / den rounded to a 32-bit float
Rounded32(f, num, den) ==
    /\ WithinOneUlp(f, num, den)
    /\ Representable32(num, den) => IsQuotient(f, num, den)

CoercedKind(kind) ==
    CASE kind = "float64" -> "float32"
      [] kind = "int64" -> "int32"
      [] kind = "uint64" -> "uint32"
      [] kind \notin {"float64", "int64", "uint64"} /\ kind \notin TableKinds -> "float32"
      [] OTHER -> kind
\* the call has passed the coercion
Coerced(p) ==
    \/ pc[p] \in {"load", "patch", "open", "write", "returned"}
    \/ pc[p] = "raised" /\ err[p] \in {IOError, OverflowError}
\* the start of the suffix in the call's output
NewSuffixStart(p) == _DATA_BODY + PayloadLen(p)
\* the bytes of the output between the template's prefix and its suffix
FilePayloadLen(p) == BLen(Out(p)) - (RefLen - _ORIG_DATA_BYTES)

\* C6: the coercion maps float64 to float32, int64 to int32, uint64 to uint32, a
\* kind without a table entry to float32 and leaves the other kinds and the shape
\* unchanged; the coerced kind has an entry in both tables; the storage and
\* display codes in the output are those of the coerced kind and the payload is
\* ny * nx * (width of the coerced kind) bytes long.
C6_Coercion ==
    \A p \in Threads :
        /\ Coerced(p) =>
              /\ local[p].data.dtype = CoercedKind(args[p].data.dtype)
              /\ local[p].data.shape = args[p].data.shape
              /\ local[p].data.dtype \in (DOMAIN _ARRAY_TYPES) \cap (DOMAIN _IMAGE_DTYPES)
        /\ Returned(p) =>
              LET kind == CoercedKind(args[p].data.dtype)
                  n == args[p].data.shape[1] * args[p].data.shape[2] * ItemSize(kind)
              IN /\ FilePayloadLen(p) = n
                 /\ UnpackBE32(Out(p), _DATA_ELEM_TYPE) = _ARRAY_TYPES[kind]
                 /\ UnpackLE32(Out(p), _DATA_BODY + n + _REL_DATATYPE) = _IMAGE_DTYPES[kind]
\* a call with a square 64-bit float array returned, the 32-bit float codes in its file
C6_Witness ==
    \E p \in Threads :
        /\ Returned(p) /\ args[p].data.dtype = "float64"
        /\ args[p].data.shape = <<MaxDim, MaxDim>>
        /\ FilePayloadLen(p) = MaxDim * MaxDim * 4
        /\ UnpackBE32(Out(p), _DATA_ELEM_TYPE) = _ARRAY_TYPES["float32"]

\* C7: in the output of a call that returned, for shape (ny, nx) and coerced
\* width w: the length is the reference length - 30276 + nx*ny*w; the bytes
\* [152664, 152664 + nx*ny*w) are the array's bytes; the big-endian fields at
\* 152656 and 152660 are the storage code and nx*ny; the little-endian fields
\* at 23, 61, 80 and 109 bytes after the payload are the display code, nx, ny
\* and w; so columns * rows = element count and count * width = payload length.
C7_Layout ==
    \A p \in Threads :
        Returned(p) =>
            LET out == Out(p)
                n == PayloadLen(p)
                count == UnpackBE32(out, _DATA_ELEM_COUNT)
                cols == UnpackLE32(out, NewSuffixStart(p) + _REL_DIM_NX)
                rows == UnpackLE32(out, NewSuffixStart(p) + _REL_DIM_NY)
                width == UnpackLE32(out, NewSuffixStart(p) + _REL_PIXELDEPTH)
            IN /\ BLen(out) = RefLen - _ORIG_DATA_BYTES + n
               /\ Take(Drop(out, _DATA_BODY), n) = FromBytes(ToBytes(local[p].data))
               /\ ByteAt(out, NewSuffixStart(p)) = TemplateByte(_SUFFIX_START)
               /\ UnpackBE32(out, _DATA_ELEM_TYPE) = _ARRAY_TYPES[local[p].data.dtype]
               /\ count = Nx(p) * Ny(p)
               /\ UnpackLE32(out, NewSuffixStart(p) + _REL_DATATYPE)
                     = _IMAGE_DTYPES[local[p].data.dtype]
               /\ cols = Nx(p) /\ rows = Ny(p) /\ width = Width(p)
               /\ Nx(p) = args[p].data.shape[2] /\ Ny(p) = args[p].data.shape[1]
               /\ cols * rows = count
               /\ count * width = FilePayloadLen(p)
\* a call returned for an array with more columns than rows and 2-byte elements
C7_Witness ==
    \E p \in Threads :
        /\ Returned(p) /\ Nx(p) = MaxDim /\ Ny(p) = 1 /\ Width(p) = 2
        /\ UnpackLE32(Out(p), NewSuffixStart(p) + _REL_DIM_NX) = MaxDim

\* two calls with the same array, calibration and version
SameCall(p, q) ==
    /\ args[p].data = args[q].data
    /\ args[p].pixel_scales = args[q].pixel_scales
    /\ args[p].pixel_offsets = args[q].pixel_offsets
    /\ args[p].version = args[q].version

\* q's call was made on the output path of p's call after that one returned
Reran(p, q) ==
    /\ p # q /\ pc[p] = "returned" /\ pc[q] # "idle"
    /\ args[p].filepath = args[q].filepath /\ owner[args[q].filepath] = q

\* C8: two calls with the same array, calibration and version that have returned
\* left the same bytes at their output paths, whatever their pixel_units and
\* title and whatever the paths held before; a call made again on the path of
\* an earlier call with the same array, calibration and version leaves the
\* bytes the earlier one left; and the file a returned call left is exactly the
\* result it assembled, no byte of the earlier content remaining.
C8_Deterministic ==
    \A p \in Threads :
        /\ Returned(p) => OutFile(p) = File(local[p].result)
        /\ \A q \in Threads :
              /\ (Returned(p) /\ Returned(q) /\ SameCall(p, q)) => Out(p) = Out(q)
              /\ (Reran(p, q) /\ Returned(q) /\ SameCall(p, q))
                    => OutFile(q) = prior[q][args[q].filepath]
\* a call returned that was made on the path of an earlier, longer output of a
\* call with another title
C8_Witness ==
    \E p \in Threads : \E q \in Threads :
        /\ Reran(p, q) /\ Returned(q)
        /\ prior[q][args[q].filepath] = File(local[p].result)
        /\ BLen(local[p].result) > BLen(Out(q))
        /\ args[p].title # args[q].title

\* what a call with arguments a leaves at its output path when it runs alone and
\* nothing fails
Alone(a) ==
    BuildResult(Template, Coerce(a.data), DefaultScales(a.pixel_scales),
                DefaultOffsets(a.pixel_offsets)).buf
\* no call in progress or ended has path as its output path
Untargeted(path) == \A q \in Threads : pc[q] = "idle" \/ args[q].filepath # path

\* C9: with calls running concurrently on distinct output paths, under every
\* interleaving, a call that returned left the file it leaves when run alone;
\* the reference template file is never changed, the template bytes a call
\* holds are the template's, and a path no call targets keeps its content.
C9_Isolated ==
    \A p \in Threads :
        /\ fs[_REF_PATH] = File(Template)
        /\ pc[p] = "patch" => local[p].ref = Template
        /\ Returned(p) => OutFile(p) = File(Alone(args[p]))
        /\ pc[p] # "idle" =>
              \A path \in OutPaths : Untargeted(path) => fs[path] = prior[p][path]
\* two calls with different arguments returned, the second begun while the
\* first had its output file open and empty
C9_Witness ==
    \E p \in Threads : \E q \in Threads :
        /\ p # q /\ Returned(p) /\ Returned(q)
        /\ args[p].data # args[q].data
        /\ prior[q][args[p].filepath] = File(<<>>)

\* C10 as stated: the storage code and the display code written to a file each
\* identify a single element kind of the tables, and the two tables have the
\* same keys.
C10_CodesIdentifyKind ==
    /\ DOMAIN _ARRAY_TYPES = DOMAIN _IMAGE_DTYPES
    /\ \A p \in Threads :
          Returned(p) =>
              \A kind \in TableKinds :
                  /\ _ARRAY_TYPES[kind] = UnpackBE32(Out(p), _DATA_ELEM_TYPE)
                        => kind = local[p].data.dtype
                  /\ _IMAGE_DTYPES[kind] = UnpackLE32(Out(p), NewSuffixStart(p) + _REL_DATATYPE)
                        => kind = local[p].data.dtype

\* ---- the application's claims
\* the worker of the run started last, and that run's number of items
LastWorker == workers[Len(workers)]
\* the callbacks of a kind that have not run yet
Pending(fn) == Cardinality({k \in 1..Len(after_queue) : after_queue[k].fn = fn})
\* the worker has not ended
Alive(w) == workers[w].pc \notin {"done", "TclError"}
\* the run started last has reported its summary: its worker has left the loop
\* and the callback that writes the summary to the status label has run
SummaryReported ==
    /\ workers # <<>>
    /\ LastWorker.pc \in {"exit", "done"}
    /\ Pending("status_label.config") = 0
\* a step that changes the progress bar, the status label or the tree is no step
\* of a worker's: it leaves every worker where it is, or it is _start_conversion
\* (the Convert button's handler) starting one
OnEventLoop ==
    (progress' # progress \/ status_label' # status_label \/ file_tree' # file_tree)
        => (workers' = workers \/ Len(workers') = Len(workers) + 1)
\* every increment the last worker asked for has been made or is still queued,
\* each made for a different item, in the order of the run
NoIncrementLost ==
    workers # <<>> =>
        /\ progress.value = Len(advanced)
        /\ \A i, j \in 1..Len(advanced) : i # j => advanced[i] # advanced[j]
        /\ progress.value + Pending("_advance_progress") <= progress.maximum
        /\ Alive(Len(workers)) =>
              /\ progress.maximum = Len(LastWorker.items)
              /\ progress.value + Pending("_advance_progress") = LastWorker.idx
              /\ advanced = SubSeq(LastWorker.items, 1, progress.value)
              /\ LastWorker.success + LastWorker.fail = LastWorker.idx
              /\ LastWorker.pc \in {"report", "exit"} => LastWorker.idx = progress.maximum
        /\ LastWorker.pc = "done" =>
              progress.value + Pending("_advance_progress") = progress.maximum
\* the summaries of the last run that are queued or on the label count n items
CountsSumToN ==
    (workers # <<>> /\ LastWorker.pc \in {"exit", "done"}) =>
        /\ \A k \in 1..Len(after_queue) :
              after_queue[k].text.kind = "Conversion complete"
              /\ (after_queue[k].fn = "status_label.config" \/ Pending("status_label.config") = 0)
                  => after_queue[k].text.a + after_queue[k].text.b = progress.maximum
        /\ (Pending("status_label.config") = 0 /\ status_label.kind = "Conversion complete")
              => status_label.a + status_label.b = progress.maximum
RunComplete ==
    SummaryReported => progress.value = progress.maximum
ProgressState == NoIncrementLost /\ CountsSumToN /\ RunComplete

\* C11: during a conversion run the progress bar's value, the status label and
\* the items' statuses are changed by the event-loop thread only (the worker only
\* schedules the changes), no increment of the bar is lost, and when a run over n
\* items has reported its summary the bar's value is n, each item having advanced
\* it once, and the summary's success and fail counts sum to n.
C11_ProgressSerialized == ProgressState /\ [][OnEventLoop /\ ProgressState']_vars
\* a run over two items, one converted and one failed, has reported its summary
\* and everything it scheduled has run
C11_Witness ==
    /\ SummaryReported
    /\ after_queue = <<>>
    /\ progress.value = 2
    /\ status_label = Summary(1, 1)
    /\ Len(workers) = MaxRuns

\* run r was started; it has completed: the worker has run to its end (setting
\* is_converting to false) and the summary box, scheduled after the summary label
\* and the enabling of the Convert button, has been shown
Started(r) == Len(workers) >= r
Completed(r) == Len(workers) >= r /\ workers[r].pc = "done" /\ shown >= r
InItemLoop(w) == workers[w].pc \in {"loop", "try"}

\* C12 as stated: under fair scheduling of the worker and the event loop, with
\* the user adding, removing and clearing items at will and any file failing,
\* every run that was started completes, and at most one worker is inside its
\* item loop at any time.
C12_RunCompletes ==
    /\ \A r \in 1..MaxRuns : Started(r) ~> Completed(r)
    /\ [](Cardinality({w \in 1..Len(workers) : InItemLoop(w)}) <= 1)

====
